---- MODULE Spec2Model ----
(***************************************************************************)
(* State-machine model of backend/ai-service.py: the start-up model        *)
(* loader, the /health, /upload and /webcam handlers, predict_mask and the *)
(* upload folder they share.  Every request is served by its own worker,   *)
(* so the handlers interleave at each access to the shared file system.    *)
(* Text (filenames, paths) is a sequence of one-character strings.         *)
(***************************************************************************)
EXTENDS Integers, Sequences, FiniteSets, TLC

VARIABLES
  candidates,  \* model_paths (lines 32-36): the state of each candidate file
  loaderPc,    \* the candidate the loader's loop is at (lines 38-42)
  model,       \* the global model (line 29): 0 is None, i the model loaded
               \* from candidate i
  files,       \* the files under UPLOAD_FOLDER and their bytes
  req          \* per request: its input, its handler's position and locals,
               \* and its response

vars == <<candidates, loaderPc, model, files, req>>

(***************************************************************************)
(* Bounds of the model.                                                    *)
(***************************************************************************)
\* number of requests the service handles in one run (any mix of endpoints)
MaxReq == 2
\* classifier outputs are multiples of 1/ProbMax: the number ProbMax stands
\* for probability 1.0
ProbMax == 2

Requests == 1..MaxReq

(***************************************************************************)
(* Text helpers.                                                           *)
(***************************************************************************)
UpperChars == <<"A","B","C","D","E","F","G","H","I","J","K","L","M",
                "N","O","P","Q","R","S","T","U","V","W","X","Y","Z">>
LowerChars == <<"a","b","c","d","e","f","g","h","i","j","k","l","m",
                "n","o","p","q","r","s","t","u","v","w","x","y","z">>
Digits == {"0","1","2","3","4","5","6","7","8","9"}

\* str.lower(), one character
LowerChar(c) ==
  IF \E i \in 1..26 : UpperChars[i] = c
    THEN LowerChars[CHOOSE i \in 1..26 : UpperChars[i] = c]
    ELSE c

\* str.lower()
Lower(s) == [i \in 1..Len(s) |-> LowerChar(s[i])]

\* '.' in filename
HasDot(s) == \E i \in 1..Len(s) : s[i] = "."

\* position of the last '.' of s (s holds one)
LastDot(s) == CHOOSE i \in 1..Len(s) : s[i] = "." /\ \A j \in (i+1)..Len(s) : s[j] # "."

\* filename.rsplit('.', 1)[1]
RSplitExt(s) == SubSeq(s, LastDot(s) + 1, Len(s))

\* position of the first '.' of s (s holds one)
FirstDot(s) == CHOOSE i \in 1..Len(s) : s[i] = "." /\ \A j \in 1..(i-1) : s[j] # "."

ALLOWED_EXTENSIONS ==
  { <<"p","n","g">>, <<"j","p","g">>, <<"j","p","e","g">>, <<"g","i","f">>,
    <<"w","e","b","p">> }

UPLOAD_FOLDER == <<"u","p","l","o","a","d","s">>

\* the webcam handler's one staging name
TempName == <<"t","e","m","p","_","w","e","b","c","a","m",".","j","p","g">>

\* a slip: split('.')[1], the text after the first dot up to the second
allowed_file_first_dot(filename) ==
  /\ HasDot(filename)
  /\ LET rest == SubSeq(filename, FirstDot(filename) + 1, Len(filename))
         ext == IF HasDot(rest) THEN SubSeq(rest, 1, FirstDot(rest) - 1) ELSE rest
     IN  Lower(ext) \in ALLOWED_EXTENSIONS

allowed_file(filename) ==
  HasDot(filename) /\ Lower(RSplitExt(filename)) \in ALLOWED_EXTENSIONS

(***************************************************************************)
(* werkzeug's secure_filename: a path separator becomes "_", characters     *)
(* outside [A-Za-z0-9_.-] are dropped, leading and trailing "." and "_"    *)
(* are stripped.                                                           *)
(***************************************************************************)
SafeChar(c) ==
  \/ \E i \in 1..26 : UpperChars[i] = c \/ LowerChars[i] = c
  \/ c \in Digits
  \/ c \in {"_", ".", "-"}

RECURSIVE FilterSafe(_)
FilterSafe(s) ==
  IF s = <<>> THEN <<>>
  ELSE LET c == IF Head(s) = "/" THEN "_" ELSE Head(s)
       IN  IF SafeChar(c) THEN <<c>> \o FilterSafe(Tail(s)) ELSE FilterSafe(Tail(s))

RECURSIVE StripLeft(_)
StripLeft(s) ==
  IF s # <<>> /\ Head(s) \in {".", "_"} THEN StripLeft(Tail(s)) ELSE s

RECURSIVE StripRight(_)
StripRight(s) ==
  IF s # <<>> /\ s[Len(s)] \in {".", "_"}
    THEN StripRight(SubSeq(s, 1, Len(s) - 1)) ELSE s

secure_filename(filename) == StripRight(StripLeft(FilterSafe(filename)))

\* os.path.join(app.config['UPLOAD_FOLDER'], name)
JoinPath(name) == UPLOAD_FOLDER \o <<"/">> \o name


(***************************************************************************)
(* Values.                                                                 *)
(***************************************************************************)
\* the bytes request r sends: they decode as an image or they do not
Bytes(r, good) == [owner |-> r, good |-> good]
NoBytes == [owner |-> 0, good |-> FALSE]

\* base64.b64encode / b64decode act on text; text is tagged with what it is
B64Encode(b) == [tag |-> "b64", bytes |-> b]
HeaderText == [tag |-> "header", bytes |-> NoBytes]
\* text that is no base64 because its padding is wrong
InvalidText == [tag |-> "invalid", bytes |-> NoBytes]
\* text that is no base64 because it holds characters outside the alphabet
\* (such as "!!!!"); b is what is left of it without them
StrayText(b) == [tag |-> "stray", bytes |-> b]
NoText == [tag |-> "", bytes |-> NoBytes]
\* the text is valid base64
B64Valid(t) == t.tag = "b64"
\* base64.b64decode(text) as line 187 calls it (validate=False) does not
\* raise: characters outside the alphabet are discarded before the padding
\* check, so only wrong padding raises
B64Accepts(t) == t.tag \in {"b64", "stray"}
B64Decode(t) == t.bytes

NoPrediction ==
  [result |-> "", confidence |-> -1, mask_probability |-> -1,
   no_mask_probability |-> -1]

\* client-supplied upload filenames
N_virus == <<"v","i","r","u","s",".","e","x","e">>
N_noext == <<"n","o","e","x","t">>
N_double == <<"a",".","j","p","g",".","e","x","e">>
N_up == <<".",".","/","a",".","J","P","G">>
Filenames == { <<>>, N_virus, N_noext, N_double, N_up, TempName }

\* the POST /upload requests clients send: without a 'file' field; with a
\* file of bytes that are no image under each of the names; with a file of
\* image bytes under the two names that have an allowed extension
UploadInputs ==
  { [hasFile |-> FALSE, fname |-> <<>>, good |-> FALSE] }
  \cup { [hasFile |-> TRUE, fname |-> f, good |-> FALSE] : f \in Filenames }
  \cup { [hasFile |-> TRUE, fname |-> f, good |-> TRUE] : f \in {N_up, TempName} }

\* shapes of the body of POST /webcam: no JSON body; JSON without an
\* 'image' field; an image text without a comma; an image text whose part
\* after the comma has wrong padding; one whose part after the comma holds
\* characters outside the base64 alphabet; a data URI of the request's bytes
WebcamShapes == {"nojson", "noimage", "nocomma", "badb64", "stray", "ok"}

\* request.get_json() for a body of the given shape; image is data['image']
\* already cut at its commas
WebcamData(shape, b) ==
  [json |-> shape # "nojson",
   hasImage |-> shape \notin {"nojson", "noimage"},
   image |-> CASE shape = "ok" -> <<HeaderText, B64Encode(b)>>
               [] shape = "badb64" -> <<HeaderText, InvalidText>>
               [] shape = "stray" -> <<HeaderText, StrayText(b)>>
               [] shape = "nocomma" -> <<B64Encode(b)>>
               [] OTHER -> <<>>]

\* states of the three candidate model files
CandStates == {"missing", "ok", "corrupt"}
NumCandidates == 3

E_NoFile == "No file uploaded"
E_NoName == "No file selected"
E_BadType == "Invalid file type"
E_NoModel == "Model not loaded. Please train the model first."
E_Process == "Error processing image"
E_Predict == "Error during prediction"
E_Server == "Server error"
E_NoImage == "No image data received"

IdleReq ==
  [kind |-> "none", pc |-> "idle", hasFile |-> FALSE, fname |-> <<>>,
   shape |-> "", good |-> FALSE, path |-> <<>>, prep |-> "not_called",
   seen |-> NoBytes, raw |-> <<-1, -1>>, prediction |-> NoPrediction,
   error |-> "",
   img_data |-> NoText, status |-> 0, msg |-> "", success |-> FALSE,
   model_loaded |-> FALSE]

\* every state the three candidate model files can be in at start-up
AllConfigs == [1..NumCandidates -> CandStates]

\* the start-up configurations the request handlers are checked under: no
\* candidate exists; one exists and loads; the first one fails to load
ServingConfigs ==
  { <<"missing", "missing", "missing">>, <<"missing", "ok", "missing">>,
    <<"corrupt", "ok", "ok">> }

InitWith(configs) ==
  /\ candidates \in configs
  /\ loaderPc = 1
  /\ model = 0
  /\ files = << >>
  /\ req = [r \in Requests |-> IdleReq]

Init == InitWith(ServingConfigs)

(***************************************************************************)
(* The file system under the upload folder: files maps each existing path  *)
(* to the bytes stored there.                                              *)
(***************************************************************************)
Exists(p) == p \in DOMAIN files
WriteFile(p, b) == [q \in DOMAIN files \cup {p} |-> IF q = p THEN b ELSE files[q]]
RemoveFile(p) == [q \in DOMAIN files \ {p} |-> files[q]]

(***************************************************************************)
(* Start-up: the model loader (module level, before any request).          *)
(***************************************************************************)
Serving == loaderPc = NumCandidates + 1

LoadStep ==
  /\ loaderPc \in 1..NumCandidates
  /\ LET c == candidates[loaderPc] IN
       \/ /\ c = "missing"              \* os.path.exists is false: next path
          /\ loaderPc' = loaderPc + 1
          /\ model' = model
       \/ /\ c = "ok"                   \* loaded: break
          /\ model' = loaderPc
          /\ loaderPc' = NumCandidates + 1
       \/ /\ c = "corrupt"              \* load_model raises: the except
          /\ model' = model             \* clause around the loop ends it
          /\ loaderPc' = NumCandidates + 1
  /\ UNCHANGED <<candidates, files, req>>

\* request slot r is free, and the slots are taken in order
CanStart(r) ==
  /\ Serving
  /\ req[r].pc = "idle"
  /\ IF r = 1 THEN TRUE ELSE req[r - 1].pc # "idle"

Respond(q, status, msg) ==
  [q EXCEPT !.pc = "done", !.status = status, !.msg = msg]

(***************************************************************************)
(* GET /health                                                             *)
(***************************************************************************)
\* a slip: the endpoint reports a model whenever the start-up is over
health_check_always_loaded(r) ==
  /\ CanStart(r)
  /\ req' = [req EXCEPT ![r] =
       [IdleReq EXCEPT !.kind = "health", !.pc = "done", !.status = 200,
                       !.model_loaded = Serving]]
  /\ UNCHANGED <<candidates, loaderPc, model, files>>

health_check(r) ==
  /\ CanStart(r)
  /\ req' = [req EXCEPT ![r] =
       [IdleReq EXCEPT !.kind = "health", !.pc = "done", !.status = 200,
                       !.model_loaded = (model # 0)]]
  /\ UNCHANGED <<candidates, loaderPc, model, files>>

(***************************************************************************)
(* predict_mask, shared by both handlers.  Its one access to shared state  *)
(* is cv2.imread of the staged file (the model is read-only once loaded),  *)
(* so a call is one step, taken at the moment of that read.                *)
(***************************************************************************)
\* the classifier's outputs prediction[0] = [p_no_mask, p_mask]: the two
\* outputs of a softmax layer, which add up to 1.0
ProbPairs == { v \in (0..ProbMax) \X (0..ProbMax) : v[1] + v[2] = ProbMax }

\* a slip: ties go to the last index
ArgMaxLast(v) ==
  (CHOOSE i \in 1..Len(v) :
      /\ \A j \in 1..Len(v) : v[j] <= v[i]
      /\ \A j \in (i+1)..Len(v) : v[j] < v[i]) - 1

\* np.argmax: the first (0-based) index holding the largest value
ArgMax(v) ==
  (CHOOSE i \in 1..Len(v) :
      /\ \A j \in 1..Len(v) : v[j] <= v[i]
      /\ \A j \in 1..(i-1) : v[j] < v[i]) - 1

\* a slip: the two labels the wrong way round
ShapePredictionLabelsSwapped(v) ==
  LET mask_prob == v[2]
      no_mask_prob == v[1]
      pred_label == ArgMax(v)
  IN  IF pred_label = 0
        THEN [result |-> "Wearing Mask", confidence |-> mask_prob,
              mask_probability |-> mask_prob, no_mask_probability |-> no_mask_prob]
        ELSE [result |-> "Not Wearing Mask", confidence |-> no_mask_prob,
              mask_probability |-> mask_prob, no_mask_probability |-> no_mask_prob]

\* a slip: the two probabilities read from the wrong indices
ShapePredictionIndexSwapped(v) ==
  LET mask_prob == v[1]
      no_mask_prob == v[2]
      pred_label == ArgMax(v)
  IN  IF pred_label = 1
        THEN [result |-> "Wearing Mask", confidence |-> mask_prob,
              mask_probability |-> mask_prob, no_mask_probability |-> no_mask_prob]
        ELSE [result |-> "Not Wearing Mask", confidence |-> no_mask_prob,
              mask_probability |-> mask_prob, no_mask_probability |-> no_mask_prob]

\* lines 97-117: the result record built from prediction[0]
ShapePrediction(v) ==
  LET mask_prob == v[2]
      no_mask_prob == v[1]
      pred_label == ArgMax(v)
  IN  IF pred_label = 1
        THEN [result |-> "Wearing Mask", confidence |-> mask_prob,
              mask_probability |-> mask_prob, no_mask_probability |-> no_mask_prob]
        ELSE [result |-> "Not Wearing Mask", confidence |-> no_mask_prob,
              mask_probability |-> mask_prob, no_mask_probability |-> no_mask_prob]

\* cv2.imread(image_path): None when the file is missing or is no image
ImRead(p) == IF Exists(p) /\ files[p].good THEN files[p] ELSE NoBytes

\* a slip: the image is decoded before the model is checked
PredictStartDecodeFirst(q, image) ==
  LET d == IF image = NoBytes THEN [q EXCEPT !.prep = "none"]
           ELSE [q EXCEPT !.prep = "image", !.seen = image]
  IN  IF model = 0 THEN [d EXCEPT !.error = E_NoModel]
      ELSE IF image = NoBytes THEN [d EXCEPT !.error = E_Process]
      ELSE d

\* lines 84-92: the model check, then preprocess_image and the check of its
\* result.  image is what cv2.imread would return; prep records whether
\* preprocess_image was called and what it returned
PredictStart(q, image) ==
  IF model = 0 THEN [q EXCEPT !.error = E_NoModel]
  ELSE IF image = NoBytes THEN [q EXCEPT !.prep = "none", !.error = E_Process]
  ELSE [q EXCEPT !.prep = "image", !.seen = image]

\* a change: /upload answers a decode failure with 400
PredictReturnDecodeIs400(q, prediction, error) ==
  IF q.kind = "upload"
    THEN IF error # ""
           THEN Respond([q EXCEPT !.error = error],
                        IF error = E_Process THEN 400 ELSE 500, error)
           ELSE [q EXCEPT !.pc = "echo", !.prediction = prediction]
    ELSE [q EXCEPT !.pc = "remove", !.prediction = prediction, !.error = error]

\* predict_mask returns (prediction, error) to the handler that called it:
\* /upload (lines 150-153) answers 500 at once when there is an error,
\* /webcam (line 195) goes on to os.remove either way
PredictReturn(q, prediction, error) ==
  IF q.kind = "upload"
    THEN IF error # ""
           THEN Respond([q EXCEPT !.error = error], 500, error)
           ELSE [q EXCEPT !.pc = "echo", !.prediction = prediction]
    ELSE [q EXCEPT !.pc = "remove", !.prediction = prediction, !.error = error]

\* a slip: a failed model.predict drops the global model
predict_mask_drops_model(r) ==
  /\ req[r].pc = "predict"
  /\ LET q == PredictStart(req[r], ImRead(req[r].path)) IN
       IF q.error # ""
         THEN /\ req' = [req EXCEPT ![r] = PredictReturn(q, NoPrediction, q.error)]
              /\ model' = model
         ELSE \/ /\ req' = [req EXCEPT ![r] = PredictReturn(q, NoPrediction, E_Predict)]
                 /\ model' = 0
              \/ /\ \E v \in ProbPairs :
                      req' = [req EXCEPT ![r] =
                        PredictReturn([q EXCEPT !.raw = v], ShapePrediction(v), "")]
                 /\ model' = model
  /\ UNCHANGED <<candidates, loaderPc, files>>

\* lines 82-121; model.predict raises or returns a probability pair
predict_mask(r) ==
  /\ req[r].pc = "predict"
  /\ LET q == PredictStart(req[r], ImRead(req[r].path)) IN
       IF q.error # ""
         THEN req' = [req EXCEPT ![r] = PredictReturn(q, NoPrediction, q.error)]
         ELSE \/ req' = [req EXCEPT ![r] = PredictReturn(q, NoPrediction, E_Predict)]
              \/ \E v \in ProbPairs :
                   req' = [req EXCEPT ![r] =
                     PredictReturn([q EXCEPT !.raw = v], ShapePrediction(v), "")]
  /\ UNCHANGED <<candidates, loaderPc, model, files>>

(***************************************************************************)
(* POST /upload                                                            *)
(***************************************************************************)
Accepted == [status |-> 0, msg |-> ""]
Rejected(status, msg) == [status |-> status, msg |-> msg]

\* a slip: no check that the request has a 'file' field, so that
\* request.files['file'] raises and the except clause answers 500
UploadValidateNoFieldCheck(hasFile, fname) ==
  IF ~hasFile THEN Rejected(500, E_Server)
  ELSE IF fname = <<>> THEN Rejected(400, E_NoName)
  ELSE IF allowed_file(fname) THEN Accepted
  ELSE Rejected(400, E_BadType)

\* lines 136-143 and 169-170: the checks of the upload before it is saved
UploadValidate(hasFile, fname) ==
  IF ~hasFile THEN Rejected(400, E_NoFile)
  ELSE IF fname = <<>> THEN Rejected(400, E_NoName)
  ELSE IF allowed_file(fname) THEN Accepted
  ELSE Rejected(400, E_BadType)

\* lines 136-147: the request arrives, is validated, and its bytes are
\* saved under the upload folder (file.save is the step's one access to
\* the file system)
upload_file(r) ==
  /\ CanStart(r)
  /\ \E in \in UploadInputs :
       LET q == [IdleReq EXCEPT !.kind = "upload", !.hasFile = in.hasFile,
                                !.fname = in.fname, !.good = in.good]
           check == UploadValidate(in.hasFile, in.fname)
           filepath == JoinPath(secure_filename(in.fname))
       IN IF check = Accepted
            THEN req' = [req EXCEPT ![r] =
                           [q EXCEPT !.pc = "predict", !.path = filepath]]
                 /\ files' = WriteFile(filepath, Bytes(r, in.good))
            ELSE req' = [req EXCEPT ![r] = Respond(q, check.status, check.msg)]
                 /\ files' = files
  /\ UNCHANGED <<candidates, loaderPc, model>>

\* a slip: the re-read is outside the try block, so that when open() raises
\* the framework answers with its own 500 page, which is no {error: message}
upload_echo_uncaught(r) ==
  /\ req[r].kind = "upload" /\ req[r].pc = "echo"
  /\ req' = [req EXCEPT ![r] =
       IF Exists(req[r].path)
         THEN [req[r] EXCEPT !.pc = "remove",
                             !.img_data = B64Encode(files[req[r].path])]
         ELSE Respond(req[r], 500, "")]
  /\ UNCHANGED <<candidates, loaderPc, model, files>>

\* lines 156-157: re-read the staged file for the echo; open() raises when
\* the file is gone, and the handler's except clause answers 500
upload_echo(r) ==
  /\ req[r].kind = "upload" /\ req[r].pc = "echo"
  /\ req' = [req EXCEPT ![r] =
       IF Exists(req[r].path)
         THEN [req[r] EXCEPT !.pc = "remove",
                             !.img_data = B64Encode(files[req[r].path])]
         ELSE Respond(req[r], 500, E_Server)]
  /\ UNCHANGED <<candidates, loaderPc, model, files>>

\* lines 160-167: os.remove(filepath) and the success response; os.remove
\* raises when the file is gone
upload_remove(r) ==
  /\ req[r].kind = "upload" /\ req[r].pc = "remove"
  /\ IF Exists(req[r].path)
       THEN /\ files' = RemoveFile(req[r].path)
            /\ req' = [req EXCEPT ![r] =
                 [Respond(req[r], 200, "") EXCEPT !.success = TRUE]]
       ELSE /\ files' = files
            /\ req' = [req EXCEPT ![r] = Respond(req[r], 500, E_Server)]
  /\ UNCHANGED <<candidates, loaderPc, model>>

(***************************************************************************)
(* POST /webcam                                                            *)
(***************************************************************************)
DigitChars == <<"0","1","2","3","4","5","6","7","8","9">>

\* a change: one staging name per request
WebcamPathPerRequest(r) == JoinPath(<<DigitChars[r + 1], "_">> \o TempName)

\* line 190: the staging path does not depend on the request
WebcamPath(r) == JoinPath(TempName)

\* lines 181-192: the body is parsed, the image text decoded and the bytes
\* written to the staging path
webcam_prediction(r) ==
  /\ CanStart(r)
  /\ \E shape \in WebcamShapes, good \in BOOLEAN :
       /\ shape = "ok" \/ ~good     \* the bytes matter when they are staged
       /\ LET q == [IdleReq EXCEPT !.kind = "webcam", !.shape = shape,
                                   !.good = good]
              data == WebcamData(shape, Bytes(r, good))
              temp_path == WebcamPath(r)
          IN IF ~data.json
               \* get_json() returns None (then line 183 answers 400) or,
               \* in later Flask versions, raises (the except clause
               \* answers 500)
               THEN /\ \/ req' = [req EXCEPT ![r] = Respond(q, 400, E_NoImage)]
                       \/ req' = [req EXCEPT ![r] = Respond(q, 500, E_Server)]
                    /\ files' = files
             ELSE IF ~data.hasImage
               THEN req' = [req EXCEPT ![r] = Respond(q, 400, E_NoImage)]
                    /\ files' = files
             ELSE IF Len(data.image) < 2          \* split(',')[1]: IndexError
               THEN req' = [req EXCEPT ![r] = Respond(q, 500, E_Server)]
                    /\ files' = files
             ELSE IF ~B64Accepts(data.image[2])   \* b64decode raises
               THEN req' = [req EXCEPT ![r] = Respond(q, 500, E_Server)]
                    /\ files' = files
             ELSE req' = [req EXCEPT ![r] =
                            [q EXCEPT !.pc = "predict", !.path = temp_path]]
                  /\ files' = WriteFile(temp_path, B64Decode(data.image[2]))
  /\ UNCHANGED <<candidates, loaderPc, model>>

\* a slip: the error is returned before the clean-up, as /upload does
webcam_remove_after_error_check(r) ==
  /\ req[r].kind = "webcam" /\ req[r].pc = "remove"
  /\ IF req[r].error # ""
       THEN /\ files' = files
            /\ req' = [req EXCEPT ![r] = Respond(req[r], 500, req[r].error)]
       ELSE IF Exists(req[r].path)
         THEN /\ files' = RemoveFile(req[r].path)
              /\ req' = [req EXCEPT ![r] =
                   [Respond(req[r], 200, "") EXCEPT !.success = TRUE]]
         ELSE /\ files' = files
              /\ req' = [req EXCEPT ![r] = Respond(req[r], 500, E_Server)]
  /\ UNCHANGED <<candidates, loaderPc, model>>

\* lines 198-206: os.remove(temp_path), then the response; os.remove raises
\* when the file is gone, and the handler's except clause answers 500
webcam_remove(r) ==
  /\ req[r].kind = "webcam" /\ req[r].pc = "remove"
  /\ IF Exists(req[r].path)
       THEN /\ files' = RemoveFile(req[r].path)
            /\ req' = [req EXCEPT ![r] =
                 IF req[r].error # ""
                   THEN Respond(req[r], 500, req[r].error)
                   ELSE [Respond(req[r], 200, "") EXCEPT !.success = TRUE]]
       ELSE /\ files' = files
            /\ req' = [req EXCEPT ![r] = Respond(req[r], 500, E_Server)]
  /\ UNCHANGED <<candidates, loaderPc, model>>

Next ==
  \/ LoadStep
  \/ \E r \in Requests : health_check(r)
  \/ \E r \in Requests : upload_file(r)
  \/ \E r \in Requests : predict_mask(r)
  \/ \E r \in Requests : upload_echo(r)
  \/ \E r \in Requests : upload_remove(r)
  \/ \E r \in Requests : webcam_prediction(r)
  \/ \E r \in Requests : webcam_remove(r)

Spec == Init /\ [][Next]_vars

(***************************************************************************)
(* Vocabulary of the properties.                                           *)
(***************************************************************************)
IsUpload(r) == req[r].kind = "upload"
IsWebcam(r) == req[r].kind = "webcam"
\* the handler of request r has returned its response
Responded(r) == req[r].pc = "done"
\* request r wrote its bytes to req[r].path
Staged(r) == req[r].path # <<>>
\* request r is between its staging and its response
InFlight(r) == req[r].pc \in {"predict", "echo", "remove"}
\* some file under the upload folder holds the bytes request r wrote
FileOf(r) == \E p \in DOMAIN files : files[p].owner = r
HasPrediction(r) == req[r].prediction # NoPrediction
WebcamFile == JoinPath(TempName)
Max2(a, b) == IF a >= b THEN a ELSE b

(***************************************************************************)
(* Properties of the staged files.                                         *)
(***************************************************************************)
\* C1: once a POST /upload request has responded, whatever its outcome, the
\* file it staged under the upload folder no longer exists.
C1_StagedUploadGoneAfterResponse ==
  \A r \in Requests :
    (IsUpload(r) /\ Responded(r) /\ Staged(r)) =>
      ~(Exists(req[r].path) /\ files[req[r].path].owner = r)

\* C2: once every POST /webcam request has responded, nothing a webcam
\* request staged is left on disk; and unless an upload was staged under the
\* same name, uploads/temp_webcam.jpg does not exist.
C2_WebcamFileDeleted ==
  (\A r \in Requests : IsWebcam(r) => Responded(r)) =>
    /\ \A p \in DOMAIN files : ~IsWebcam(files[p].owner)
    /\ (\A r \in Requests : IsUpload(r) => req[r].path # WebcamFile)
         => ~Exists(WebcamFile)

\* two webcam requests have staged and responded, one of them through the
\* except clause because its os.remove found the file gone
C2_TwoWebcamsResponded ==
  \E r1, r2 \in Requests :
    /\ r1 # r2 /\ IsWebcam(r1) /\ IsWebcam(r2)
    /\ Staged(r1) /\ Staged(r2) /\ Responded(r1) /\ Responded(r2)
    /\ req[r1].status = 500 /\ req[r1].msg = E_Server
    /\ ~Exists(WebcamFile)

\* C3: every POST /webcam request stages at the one path
\* uploads/temp_webcam.jpg, so that concurrent webcam requests share their
\* staged file (the race itself is the state C3_WebcamOverwritten).
C3_WebcamSharesOnePath ==
  \A r1, r2 \in Requests :
    (IsWebcam(r1) /\ IsWebcam(r2) /\ Staged(r1) /\ Staged(r2)) =>
      (req[r1].path = req[r2].path /\ req[r1].path = WebcamFile)

\* a webcam request has written temp_webcam.jpg and its predict_mask has not
\* read it yet, and the file now holds the bytes of another webcam request
C3_WebcamOverwritten ==
  \E r1, r2 \in Requests :
    /\ r1 # r2 /\ IsWebcam(r1) /\ IsWebcam(r2)
    /\ req[r1].pc = "predict"
    /\ Exists(WebcamFile) /\ files[WebcamFile].owner = r2

\* C4: two POST /upload requests in flight at the same time stage at
\* different paths.
C4_UploadPathsDistinct ==
  \A r1, r2 \in Requests :
    (r1 # r2 /\ IsUpload(r1) /\ IsUpload(r2) /\ InFlight(r1) /\ InFlight(r2)) =>
      req[r1].path # req[r2].path

(***************************************************************************)
(* Properties of the validation of uploads.                                *)
(***************************************************************************)
\* C5: a POST /upload request without a 'file' field or with an empty
\* filename is answered 400, stages no file and never reaches predict_mask.
C5_NoFileIsClientError ==
  \A r \in Requests :
    (IsUpload(r) /\ (~req[r].hasFile \/ req[r].fname = <<>>)) =>
      /\ Responded(r) /\ req[r].status = 400 /\ ~req[r].success
      /\ ~Staged(r) /\ ~FileOf(r)
      /\ req[r].prep = "not_called" /\ req[r].error = ""
      /\ req[r].raw = <<-1, -1>> /\ ~HasPrediction(r)

\* one upload without a file field and one with an empty filename have been
\* answered
C5_BothRejected ==
  \E r1, r2 \in Requests :
    /\ IsUpload(r1) /\ ~req[r1].hasFile /\ req[r1].status = 400
    /\ IsUpload(r2) /\ req[r2].hasFile /\ req[r2].fname = <<>>
    /\ req[r2].status = 400

\* the filename has an extension (the text after its last dot) that is, in
\* lower case, one of png, jpg, jpeg, gif, webp
ExtensionAllowed(f) ==
  \E i \in 1..Len(f) :
    /\ f[i] = "."
    /\ \A j \in (i+1)..Len(f) : f[j] # "."
    /\ Lower(SubSeq(f, i + 1, Len(f))) \in ALLOWED_EXTENSIONS

\* C6: an upload whose filename has no allowed extension is answered 400
\* "Invalid file type" and is never staged; an upload is staged only if its
\* extension is allowed.  (Each upload with a filename either has been
\* rejected so, with nothing of it on disk, or has an allowed extension.)
C6_BadExtensionNeverStaged ==
  \A r \in Requests :
    (IsUpload(r) /\ req[r].hasFile /\ req[r].fname # <<>>) =>
      \/ /\ Responded(r) /\ req[r].status = 400 /\ req[r].msg = E_BadType
         /\ ~Staged(r) /\ ~FileOf(r)
      \/ ExtensionAllowed(req[r].fname)

\* a.jpg.exe has been rejected and ../a.JPG has been staged
C6_RejectedAndStaged ==
  \E r1, r2 \in Requests :
    /\ IsUpload(r1) /\ req[r1].fname = N_double /\ req[r1].status = 400
    /\ IsUpload(r2) /\ req[r2].fname = N_up /\ Staged(r2) /\ FileOf(r2)

(***************************************************************************)
(* Properties of predict_mask.                                             *)
(***************************************************************************)
\* C7: with no model loaded, predict_mask returns "Model not loaded" without
\* calling preprocess_image, and the handler answers 500.
C7_NoModelNoDecode ==
  model = 0 =>
    \A r \in Requests :
      /\ req[r].prep = "not_called" /\ req[r].seen = NoBytes
      /\ (Staged(r) /\ req[r].pc # "predict") => req[r].error = E_NoModel
      /\ (Staged(r) /\ Responded(r)) => (req[r].status = 500 /\ ~req[r].success)

\* with no model loaded, an upload and a webcam request, both with bytes
\* that would decode, have been answered "Model not loaded"
C7_NoModelAnswered ==
  /\ model = 0
  /\ \E r1, r2 \in Requests :
       /\ IsUpload(r1) /\ Staged(r1) /\ req[r1].good /\ Responded(r1)
       /\ req[r1].msg = E_NoModel
       /\ IsWebcam(r2) /\ Staged(r2) /\ req[r2].good /\ Responded(r2)
       /\ req[r2].msg = E_NoModel

\* C8 as stated: the label is "Wearing Mask" iff
\* mask_probability >= no_mask_probability, also when the two are equal.
C8_MaskIffAtLeast ==
  \A r \in Requests :
    HasPrediction(r) =>
      (req[r].prediction.result = "Wearing Mask"
         <=> req[r].prediction.mask_probability
               >= req[r].prediction.no_mask_probability)

\* C8 as amended: the label is "Wearing Mask" iff
\* mask_probability > no_mask_probability.
C8_MaskIffGreater ==
  \A r \in Requests :
    HasPrediction(r) =>
      (req[r].prediction.result = "Wearing Mask"
         <=> req[r].prediction.mask_probability
               > req[r].prediction.no_mask_probability)

\* one prediction with the mask probability the larger and labelled
\* "Wearing Mask", and one with equal probabilities
C8_MaskAndTie ==
  \E r1, r2 \in Requests :
    /\ HasPrediction(r1) /\ req[r1].prediction.result = "Wearing Mask"
    /\ req[r1].prediction.mask_probability > req[r1].prediction.no_mask_probability
    /\ HasPrediction(r2)
    /\ req[r2].prediction.mask_probability = req[r2].prediction.no_mask_probability

\* C9: the label names a class of largest probability, and with equal
\* probabilities it is "Not Wearing Mask" (argmax, ties to index 0).
C9_TieIsNotWearingMask ==
  \A r \in Requests :
    HasPrediction(r) =>
      LET p == req[r].prediction IN
        /\ p.result \in {"Wearing Mask", "Not Wearing Mask"}
        /\ p.result = "Wearing Mask" => p.mask_probability >= p.no_mask_probability
        /\ p.result = "Not Wearing Mask" => p.no_mask_probability >= p.mask_probability
        /\ p.mask_probability = p.no_mask_probability => p.result = "Not Wearing Mask"

\* a request has been answered with a prediction of equal probabilities
C9_TieAnswered ==
  \E r \in Requests :
    /\ Responded(r) /\ req[r].success /\ HasPrediction(r)
    /\ req[r].raw[1] = req[r].raw[2]
    /\ req[r].prediction.result = "Not Wearing Mask"

\* C10: confidence is the larger of the two probabilities and the
\* probability of the class the label names; mask_probability and
\* no_mask_probability are the classifier's outputs at index 1 and index 0.
C10_ConfidenceIsMax ==
  \A r \in Requests :
    HasPrediction(r) =>
      LET p == req[r].prediction IN
        /\ p.confidence = Max2(p.mask_probability, p.no_mask_probability)
        /\ p.confidence = IF p.result = "Wearing Mask"
                            THEN p.mask_probability ELSE p.no_mask_probability
        /\ p.mask_probability = req[r].raw[2]
        /\ p.no_mask_probability = req[r].raw[1]

\* predictions of both labels have been answered, each with the larger
\* probability as its confidence
C10_BothLabelsAnswered ==
  \E r1, r2 \in Requests :
    /\ Responded(r1) /\ req[r1].success
    /\ req[r1].raw[2] > req[r1].raw[1]
    /\ req[r1].prediction.confidence = req[r1].raw[2]
    /\ Responded(r2) /\ req[r2].success
    /\ req[r2].raw[1] > req[r2].raw[2]
    /\ req[r2].prediction.confidence = req[r2].raw[1]

(***************************************************************************)
(* Properties of /health, of the responses and of the model handle.        *)
(***************************************************************************)
\* C11: GET /health answers 200 with model_loaded equal to whether a model
\* is loaded, also while other requests are in flight, and its step changes
\* neither the model nor any file nor any other request.
C11_HealthReportsModel ==
  /\ [](\A r \in Requests :
          req[r].kind = "health" =>
            /\ Responded(r) /\ req[r].status = 200
            /\ req[r].model_loaded = (model # 0))
  /\ [][\A r \in Requests :
          (req[r].pc = "idle" /\ req'[r].kind = "health") =>
            /\ model' = model /\ files' = files
            /\ candidates' = candidates /\ loaderPc' = loaderPc
            /\ \A q \in Requests \ {r} : req'[q] = req[q]]_vars

\* /health has answered model_loaded: true while an upload that arrived
\* before it is still between its staging and its response
C11_HealthDuringUpload ==
  \E r1, r2 \in Requests :
    /\ r1 < r2 /\ IsUpload(r1) /\ InFlight(r1) /\ FileOf(r1)
    /\ req[r2].kind = "health" /\ req[r2].status = 200 /\ req[r2].model_loaded

\* C12: every POST /upload and POST /webcam request that has been answered
\* has either the success payload (status 200) or an {error: message}
\* payload with status 400 or 500; an unanswered one can take its next step;
\* and an answer, once given, does not change.
C12_UniformResponses ==
  /\ [](\A r \in Requests :
          (IsUpload(r) \/ IsWebcam(r)) =>
            /\ Responded(r) =>
                 \/ /\ req[r].status = 200 /\ req[r].success
                    /\ req[r].msg = "" /\ HasPrediction(r)
                 \/ /\ req[r].status \in {400, 500} /\ ~req[r].success
                    /\ req[r].msg # ""
            /\ ~Responded(r) =>
                 /\ InFlight(r) /\ req[r].status = 0
                 /\ req[r].pc = "predict" => ENABLED predict_mask(r)
                 /\ req[r].pc = "echo" => ENABLED upload_echo(r)
                 /\ req[r].pc = "remove" =>
                      ENABLED (upload_remove(r) \/ webcam_remove(r)))
  /\ [][\A r \in Requests : Responded(r) => req'[r] = req[r]]_vars

\* an upload has been answered 500 because its staged file was gone when it
\* was re-read or removed (a webcam request, answered too, had deleted it)
C12_FailuresAnswered ==
  \E r1, r2 \in Requests :
    /\ IsUpload(r1) /\ Responded(r1) /\ HasPrediction(r1)
    /\ req[r1].status = 500 /\ req[r1].msg = E_Server
    /\ IsWebcam(r2) /\ Responded(r2) /\ Staged(r2)

\* C13: after start-up a model is loaded iff some candidate exists and is
\* loadable, and it is the first such candidate (a candidate that fails to
\* load is skipped).
C13_LoadsFirstLoadable ==
  Serving =>
    /\ (model # 0) <=> (\E i \in 1..NumCandidates : candidates[i] = "ok")
    /\ model # 0 =>
         /\ candidates[model] = "ok"
         /\ \A j \in 1..(model - 1) : candidates[j] # "ok"

\* C14: once the start-up is over no step changes the model, a loaded model
\* is never replaced, and a call of predict_mask changes nothing but the
\* locals of the request that called it.
C14_ModelImmutable ==
  [][/\ Serving => model' = model
     /\ model # 0 => model' = model
     /\ \A r \in Requests :
          (req[r].pc = "predict" /\ req'[r].pc # "predict") =>
            /\ files' = files /\ model' = model
            /\ \A q \in Requests \ {r} : req'[q] = req[q]]_vars

\* with a model loaded, one request has been answered with a prediction and
\* another with an inference failure
C14_ServedWithModel ==
  /\ model # 0
  /\ \E r1, r2 \in Requests :
       /\ Responded(r1) /\ req[r1].success
       /\ Responded(r2) /\ req[r2].error = E_Predict

(***************************************************************************)
(* Properties of the echo, of the webcam input and of the error codes.     *)
(***************************************************************************)
\* C15: in every successful POST /upload response the echoed image is the
\* base64 encoding of the bytes this request uploaded.
C15_EchoIsOwnBytes ==
  \A r \in Requests :
    (IsUpload(r) /\ Responded(r) /\ req[r].success) =>
      req[r].img_data = B64Encode(Bytes(r, req[r].good))

\* C16: a POST /webcam request with no JSON body, no image field, or image
\* text that is not valid base64 is answered with an error, writes no file
\* and does not reach predict_mask; a missing image field is answered 400.
C16_InvalidWebcamNeverStaged ==
  \A r \in Requests :
    (IsWebcam(r) /\ req[r].shape \in {"nojson", "noimage", "badb64", "stray"}) =>
      /\ Responded(r) /\ req[r].status \in {400, 500} /\ ~req[r].success
      /\ ~Staged(r) /\ ~FileOf(r)
      /\ req[r].prep = "not_called" /\ req[r].error = ""
      /\ req[r].shape = "noimage" => req[r].status = 400

PredictionFailures == {E_Process, E_NoModel, E_Predict}

C18_WebcamPredictionAnswered ==
  \A r \in Requests :
    (IsWebcam(r) /\ Responded(r) /\ HasPrediction(r) /\ req[r].error = "") =>
      /\ req[r].status = 200 /\ req[r].success
      /\ req[r].prediction = ShapePrediction(req[r].raw)

====
